---------------------------- MODULE Spec2Model ----------------------------
(***************************************************************************)
(* The Resistance: the presence relay (server/src/index.ts) and the        *)
(* render/input loop of the client (client/src/main.ts).                    *)
(*                                                                         *)
(* The relay is modelled one handler per action.  A handler runs to        *)
(* completion; `last` is the request it handled and `out[c]` the events it  *)
(* emitted to connection c, in emission order.                              *)
(***************************************************************************)
EXTENDS Integers, Sequences, FiniteSets, TLC

(***************************************************************************)
(* Bounds.                                                                 *)
(***************************************************************************)
\* transport connections accepted over the life of the server process
MaxConns == 3

\* frames delivered by the frame callback
MaxFrames == 2

\* pointer-movement samples
MaxMouse == 2

\* keydown and keyup events
MaxKeyEvents == 1

(***************************************************************************)
(* Relay: values.                                                          *)
(***************************************************************************)
Conns == 1..MaxConns

\* socket.id values, one fresh value per handshake (never reused)
IdPool == <<"s1", "s2", "s3", "s4", "s5", "s6">>

NewId(n) == IdPool[n]

\* the team names of the join-team signature
Teams == {"resistance", "nazi"}

\* the rooms of the adapter: the teams and one room per socket id
RoomNames == Teams \cup {NewId(n) : n \in Conns}

\* the strings clients send as join-team's argument: the team names and, as
\* the unrecognized value, the socket id of the first connection (ids are
\* public: every player-moved event carries its sender's)
JoinArgs == Teams \cup {NewId(1)}

\* JavaScript values a client can send as player-move's argument
Undefined == [t |-> "undefined"]

Payloads ==
  { [t |-> "object", position |-> "P", rotation |-> "R"],
    [t |-> "object", rotation |-> "R"],
    Undefined }

\* data.f : reading a property of undefined throws a TypeError
Throws(data) == data.t = "undefined"

Prop(data, f) == IF f \in DOMAIN data THEN data[f] ELSE "undefined"

VARIABLES
  running,    \* the server process is alive
  nextConn,   \* number of the next transport connection
  connected,  \* connections whose socket is connected
  id,         \* socket.id of each connection ("" before its handshake)
  rooms,      \* io.sockets.adapter.rooms : room name -> set of sockets
  joined,     \* history: the teams each live connection has sent in join-team
  vacated,    \* history: the teams that a member has left by disconnecting
  welcomes,   \* history: the playerIds of the welcome events sent to each connection
  last,       \* the request handled by the last step
  out         \* the events the last step emitted, per receiver, in order

relayVars == <<running, nextConn, connected, id, rooms, joined, vacated, welcomes,
               last, out>>

Receivers == Conns \cup {0}   \* 0 is the HTTP client of /health

NoOut == [c \in Receivers |-> <<>>]

(***************************************************************************)
(* Relay: the events of index.ts.                                          *)
(***************************************************************************)
Welcome(c, ids) == [type |-> "welcome", playerId |-> ids[c]]

PlayerMovedAsReceiver(s, r, ids, data) ==
  [type |-> "player-moved", playerId |-> ids[r],
   position |-> Prop(data, "position"), rotation |-> Prop(data, "rotation")]

PlayerMoved(s, r, ids, data) ==
  [type |-> "player-moved", playerId |-> ids[s],
   position |-> Prop(data, "position"), rotation |-> Prop(data, "rotation")]

TeamJoined(team) == [type |-> "team-joined", team |-> team]

TeamUpdate(team, count) ==
  [type |-> "team-update", team |-> team, playerCount |-> count]

HealthOk == [type |-> "http", status |-> 200, body |-> "ok"]

(***************************************************************************)
(* Relay: socket.io operations used by index.ts.                           *)
(***************************************************************************)
\* socket.broadcast : every connected socket but the sender
Broadcast(conn, s) == conn \ {s}

\* socket.join(team)
JoinReplace(rm, s, team) ==
  [r \in DOMAIN rm |-> IF r = team THEN rm[r] \cup {s}
                       ELSE IF r \in Teams THEN rm[r] \ {s} ELSE rm[r]]

Join(rm, s, team) == [rm EXCEPT ![team] = @ \cup {s}]

\* on disconnect the socket leaves every room
LeaveNone(rm, s) == rm

LeaveAll(rm, s) == [r \in DOMAIN rm |-> rm[r] \ {s}]

\* io.sockets.adapter.rooms.get(team)?.size || 0
RoomSize(rm, team) == Cardinality(rm[team])

\* what the disconnect handler emits to receiver r when socket s leaves the
\* rooms rm: it only logs
DisconnectOutNotice(s, r, rm) ==
  IF \E T \in Teams : {s, r} \subseteq rm[T] /\ r # s
  THEN <<[type |-> "player-left", playerId |-> s]>> ELSE <<>>

DisconnectOut(s, r, rm) == <<>>

\* what join-team emits to receiver r: socket.emit('team-joined') to the
\* sender s, then io.to(team).emit('team-update') to the sockets of the room
JoinTeamOutUpdateFirst(s, r, rm, team) ==
  (IF r \in rm[team] THEN <<TeamUpdate(team, RoomSize(rm, team))>> ELSE <<>>)
  \o (IF r = s THEN <<TeamJoined(team)>> ELSE <<>>)

JoinTeamOut(s, r, rm, team) ==
  (IF r = s THEN <<TeamJoined(team)>> ELSE <<>>)
  \o (IF r \in rm[team] THEN <<TeamUpdate(team, RoomSize(rm, team))>> ELSE <<>>)

(***************************************************************************)
(* Relay: Init and the handlers.                                           *)
(***************************************************************************)
RelayInit ==
  /\ running = TRUE
  /\ nextConn = 1
  /\ connected = {}
  /\ id = [c \in Conns |-> ""]
  /\ rooms = [r \in RoomNames |-> {}]
  /\ joined = [c \in Conns |-> {}]
  /\ vacated = {}
  /\ welcomes = [c \in Conns |-> <<>>]
  /\ last = [kind |-> "none"]
  /\ out = NoOut

\* io.on('connection'): the socket has its id and sits in the room of that name
ConnectSilent ==
  /\ running
  /\ nextConn <= MaxConns
  /\ id' = [id EXCEPT ![nextConn] = NewId(nextConn)]
  /\ connected' = connected \cup {nextConn}
  /\ rooms' = Join(rooms, nextConn, NewId(nextConn))
  /\ out' = NoOut
  /\ last' = [kind |-> "connect", conn |-> nextConn]
  /\ nextConn' = nextConn + 1
  /\ UNCHANGED <<running, joined, vacated, welcomes>>

Connect ==
  /\ running
  /\ nextConn <= MaxConns
  /\ LET c == nextConn
         ids == [id EXCEPT ![c] = NewId(c)]
     IN /\ id' = ids
        /\ connected' = connected \cup {c}
        /\ rooms' = Join(rooms, c, ids[c])
        /\ out' = [NoOut EXCEPT ![c] = <<Welcome(c, ids)>>]
        /\ welcomes' = [welcomes EXCEPT ![c] = Append(@, Welcome(c, ids).playerId)]
        /\ last' = [kind |-> "connect", conn |-> c]
  /\ nextConn' = nextConn + 1
  /\ UNCHANGED <<running, joined, vacated>>

\* socket.on('disconnect')
Disconnect(c) ==
  /\ running
  /\ c \in connected
  /\ connected' = connected \ {c}
  /\ rooms' = LeaveAll(rooms, c)
  /\ joined' = [joined EXCEPT ![c] = {}]
  /\ vacated' = vacated \cup (joined[c] \cap Teams)
  /\ out' = [r \in Receivers |-> DisconnectOut(c, r, rooms)]
  /\ last' = [kind |-> "disconnect", conn |-> c]
  /\ UNCHANGED <<running, nextConn, id, welcomes>>

\* socket.on('player-move'): an uncaught TypeError ends the process
PlayerMove(s, data) ==
  /\ running
  /\ s \in connected
  /\ last' = [kind |-> "player-move", conn |-> s, data |-> data,
              others |-> connected \ {s}]
  /\ IF Throws(data)
     THEN /\ running' = FALSE
          /\ connected' = {}
          /\ rooms' = [r \in RoomNames |-> {}]
          /\ joined' = [c \in Conns |-> {}]
          /\ vacated' = {}
          /\ out' = NoOut
     ELSE /\ out' = [r \in Receivers |->
                       IF r \in Broadcast(connected, s)
                       THEN <<PlayerMoved(s, r, id, data)>> ELSE <<>>]
          /\ UNCHANGED <<running, connected, rooms, joined, vacated>>
  /\ UNCHANGED <<nextConn, id, welcomes>>

\* socket.on('join-team')
JoinTeam(s, team) ==
  /\ running
  /\ s \in connected
  /\ LET rm == Join(rooms, s, team)
     IN /\ rooms' = rm
        /\ out' = [r \in Receivers |-> JoinTeamOut(s, r, rm, team)]
  /\ joined' = [joined EXCEPT ![s] = @ \cup {team}]
  /\ last' = [kind |-> "join-team", conn |-> s, team |-> team]
  /\ UNCHANGED <<running, nextConn, connected, id, vacated, welcomes>>

\* app.get('/health'): a dead process answers nothing
Health ==
  /\ out' = [NoOut EXCEPT ![0] = IF running THEN <<HealthOk>> ELSE <<>>]
  /\ last' = [kind |-> "health"]
  /\ UNCHANGED <<running, nextConn, connected, id, rooms, joined, vacated, welcomes>>

(***************************************************************************)
(* Client: numbers.  Angles are integers in microradians, lengths in        *)
(* thousandths of a unit, times in milliseconds; sines and cosines are      *)
(* integers in units of 1/TrigScale.                                        *)
(***************************************************************************)
\* sensitivity = 0.002 radians per pixel
Sensitivity == 2000

\* Math.PI / 2
HalfPi == 1570796

\* speed = 5.0 units per second
Speed == 5

\* this.camera.position.set(0, 1.8, 5)
InitPos == [x |-> 0, y |-> 1800, z |-> 5000]

TrigScale == 10000

Abs(n) == IF n < 0 THEN -n ELSE n

\* n / d rounded to the nearest integer
RoundDiv(n, d) == IF n >= 0 THEN (2 * n + d) \div (2 * d)
                  ELSE -((2 * (-n) + d) \div (2 * d))

\* the angle a (microradians) brought into [-pi, pi]
WrapPi(a) ==
  LET m == a % (4 * HalfPi)
  IN IF m > 2 * HalfPi THEN m - 4 * HalfPi ELSE m

\* Math.sin of an angle in [-pi/2, pi/2], by its Taylor polynomial
SinPoly(a) ==
  LET t1 == RoundDiv(a, 100)
      a2 == RoundDiv(t1 * t1, TrigScale)
      t3 == RoundDiv(RoundDiv(t1 * a2, TrigScale), 6)
      t5 == RoundDiv(RoundDiv(t3 * a2, TrigScale), 20)
      t7 == RoundDiv(RoundDiv(t5 * a2, TrigScale), 42)
      t9 == RoundDiv(RoundDiv(t7 * a2, TrigScale), 72)
  IN t1 - t3 + t5 - t7 + t9

Sin(a) ==
  LET w == WrapPi(a)
  IN IF w > HalfPi THEN SinPoly(2 * HalfPi - w)
     ELSE IF w < -HalfPi THEN SinPoly(-2 * HalfPi - w)
     ELSE SinPoly(w)

Cos(a) == Sin(a + HalfPi)

\* Math.max(-Math.PI/2, Math.min(Math.PI/2, p))
ClampNone(p) == p

Clamp(p) ==
  LET lo == IF p < HalfPi THEN p ELSE HalfPi
  IN IF lo > -HalfPi THEN lo ELSE -HalfPi

\* new THREE.Euler(pitch, yaw, 0, 'YXZ') as set into camera.quaternion
Euler(p, y) == [pitch |-> p, yaw |-> y]

\* direction.applyQuaternion(camera.quaternion) for direction = (lx, 0, lz):
\* the rotation about Y by yaw after the rotation about X by pitch
ApplyQuaternion(q, lx, lz) ==
  LET zc == RoundDiv(lz * Cos(q.pitch), TrigScale)
  IN [x |-> RoundDiv(lx * Cos(q.yaw), TrigScale) + RoundDiv(zc * Sin(q.yaw), TrigScale),
      y |-> -RoundDiv(lz * Sin(q.pitch), TrigScale),
      z |-> -RoundDiv(lx * Sin(q.yaw), TrigScale) + RoundDiv(zc * Cos(q.yaw), TrigScale)]

(***************************************************************************)
(* Client: inputs.                                                         *)
(***************************************************************************)
MoveKeys == {"KeyW", "KeyS", "KeyA", "KeyD"}

\* event.code of the keydown and keyup events: the movement keys and one other
KeyCodes == MoveKeys \cup {"Space"}

\* (movementX, movementY) of the pointer-movement samples, in pixels
MouseSamples ==
  { <<0, -1000>>, <<0, 1000>>, <<393, -262>>, <<-786, 393>>, <<1571, 0>> }

\* milliseconds between a frame and the next
FrameGaps == {500, 1000}

VARIABLES
  phase,          \* "new" before the constructor runs animate, then "running"
  yaw,            \* this.yaw
  pitch,          \* this.pitch
  camQuat,        \* camera.quaternion, as the Euler angles it was set from
  pos,            \* camera.position
  keys,           \* the codes with keys[code] = true
  locked,         \* document.pointerLockElement === document.body
  lastTime,       \* this.lastTime
  frameCount,     \* this.frameCount
  fpsUpdateTime,  \* this.fpsUpdateTime
  fpsShown,       \* the number last written to the fps element (-1: none)
  rafPending,     \* frame callbacks requested and not yet delivered
  lastFrame,      \* history: the last execution of animate
  fpsLog,         \* history: the times of the fps reports, the frames since the last
  mouseSamples,   \* history: pointer-movement samples delivered
  keyEvents       \* history: keydown and keyup events delivered

clientVars == <<phase, yaw, pitch, camQuat, pos, keys, locked, lastTime, frameCount,
                fpsUpdateTime, fpsShown, rafPending, lastFrame, fpsLog, mouseSamples,
                keyEvents>>

vars == <<relayVars, clientVars>>

(***************************************************************************)
(* Client: the frame.                                                      *)
(***************************************************************************)
\* const deltaTime = this.lastTime === 0 ? 0 : (currentTime - this.lastTime) / 1000
\* (in milliseconds here)
DeltaTimeUnguarded(currentTime, prev) == currentTime - prev

DeltaTime(currentTime, prev) == IF prev = 0 THEN 0 ELSE currentTime - prev

\* the direction vector handleMovement accumulates: speed * deltaTime per key
LocalDirectionDrift(held, dt) ==
  LET d == Speed * dt
  IN [x |-> (IF "KeyD" \in held THEN d ELSE 0) - (IF "KeyA" \in held THEN d ELSE 0),
      z |-> (IF "KeyS" \in held THEN d ELSE 0) - (IF "KeyW" \in held THEN d ELSE d)]

LocalDirection(held, dt) ==
  LET d == Speed * dt
  IN [x |-> (IF "KeyD" \in held THEN d ELSE 0) - (IF "KeyA" \in held THEN d ELSE 0),
      z |-> (IF "KeyS" \in held THEN d ELSE 0) - (IF "KeyW" \in held THEN d ELSE 0)]

\* handleMovement as assigned in setupControls: the new camera position
\* (direction.y = 0 before position.add)
HandleMovementFly(p, q, held, dt) ==
  LET dir == LocalDirection(held, dt)
  IN IF dir.x # 0 \/ dir.z # 0
     THEN LET w == ApplyQuaternion(q, dir.x, dir.z)
          IN [x |-> p.x + w.x, y |-> p.y + w.y, z |-> p.z + w.z]
     ELSE p

HandleMovement(p, q, held, dt) ==
  LET dir == LocalDirection(held, dt)
  IN IF dir.x # 0 \/ dir.z # 0
     THEN LET w == [ApplyQuaternion(q, dir.x, dir.z) EXCEPT !.y = 0]
          IN [x |-> p.x + w.x, y |-> p.y + w.y, z |-> p.z + w.z]
     ELSE p

\* the handleMovement of the class body: empty
HandleMovementStub(p, q, held, dt) == p

\* updateFPS: <<frameCount, fpsUpdateTime, fpsShown>> afterwards, and whether
\* it reported
UpdateFPSNoReset(currentTime) ==
  LET n == frameCount + 1
      elapsed == currentTime - fpsUpdateTime
  IN IF elapsed >= 1000
     THEN <<n, currentTime, RoundDiv(n * 1000, elapsed), TRUE>>
     ELSE <<n, fpsUpdateTime, fpsShown, FALSE>>

UpdateFPS(currentTime) ==
  LET n == frameCount + 1
      elapsed == currentTime - fpsUpdateTime
  IN IF elapsed >= 1000
     THEN <<0, currentTime, RoundDiv(n * 1000, elapsed), TRUE>>
     ELSE <<n, fpsUpdateTime, fpsShown, FALSE>>

\* requestAnimationFrame((time) => this.animate(time)): one more callback pending
RequestAnimationFrameNone(n) == n

RequestAnimationFrame(n) == n + 1

\* the calls of animate, in order
AnimateOrderRenderFirst ==
  <<"updateFPS", "handleMovement", "render", "requestAnimationFrame">>

AnimateOrder ==
  <<"requestAnimationFrame", "updateFPS", "handleMovement", "render">>

\* the place of a call in that order
Place(order, call) == CHOOSE i \in 1..Len(order) : order[i] = call

\* animate(currentTime), entered with `pending` callbacks outstanding;
\* installed says whether setupControls has run
Animate(currentTime, installed, pending) ==
  LET dt == DeltaTime(currentTime, lastTime)
      f == UpdateFPS(currentTime)
      p == IF installed THEN HandleMovement(pos, camQuat, keys, dt)
           ELSE HandleMovementStub(pos, camQuat, keys, dt)
  IN /\ lastTime' = currentTime
     /\ frameCount' = f[1]
     /\ fpsUpdateTime' = f[2]
     /\ fpsShown' = f[3]
     /\ pos' = p
     /\ rafPending' = RequestAnimationFrame(pending)
     /\ lastFrame' = [n |-> lastFrame.n + 1, time |-> currentTime, dt |-> dt,
                      keys |-> keys, quat |-> camQuat, from |-> pos,
                      order |-> AnimateOrder,
                      atRender |->
                        IF Place(AnimateOrder, "requestAnimationFrame")
                             < Place(AnimateOrder, "render")
                        THEN RequestAnimationFrame(pending) ELSE pending]
     /\ fpsLog' = IF f[4] THEN [reports |-> Append(fpsLog.reports, currentTime),
                                since |-> 0]
                  ELSE [fpsLog EXCEPT !.since = @ + 1]

ClientInit ==
  /\ phase = "new"
  /\ yaw = 0
  /\ pitch = 0
  /\ camQuat = Euler(0, 0)
  /\ pos = InitPos
  /\ keys = {}
  /\ locked = FALSE
  /\ lastTime = 0
  /\ frameCount = 0
  /\ fpsUpdateTime = 0
  /\ fpsShown = -1
  /\ rafPending = 0
  /\ lastFrame = [n |-> 0, time |-> 0, dt |-> 0, keys |-> {}, quat |-> Euler(0, 0),
                  from |-> InitPos, order |-> <<>>, atRender |-> 0]
  /\ fpsLog = [reports |-> <<>>, since |-> 0]
  /\ mouseSamples = 0
  /\ keyEvents = 0

\* the constructor from this.animate() on: the first frame, then setupControls
Construct ==
  /\ phase = "new"
  /\ phase' = "running"
  /\ Animate(0, FALSE, rafPending)
  /\ UNCHANGED <<yaw, pitch, camQuat, keys, locked, mouseSamples, keyEvents>>

\* the frame callback: (time) => this.animate(time)
Frame(gap) ==
  /\ phase = "running"
  /\ rafPending > 0
  /\ lastFrame.n <= MaxFrames
  /\ Animate(lastFrame.time + gap, TRUE, rafPending - 1)
  /\ UNCHANGED <<phase, yaw, pitch, camQuat, keys, locked, mouseSamples, keyEvents>>

\* the mousemove listener
MouseMoveUnguarded(dx, dy) ==
  /\ phase = "running"
  /\ mouseSamples < MaxMouse
  /\ mouseSamples' = mouseSamples + 1
  /\ yaw' = yaw - dx * Sensitivity
  /\ pitch' = Clamp(pitch - dy * Sensitivity)
  /\ camQuat' = Euler(pitch', yaw')
  /\ UNCHANGED <<phase, pos, keys, locked, lastTime, frameCount, fpsUpdateTime,
                 fpsShown, rafPending, lastFrame, fpsLog, keyEvents>>

MouseMove(dx, dy) ==
  /\ phase = "running"
  /\ mouseSamples < MaxMouse
  /\ mouseSamples' = mouseSamples + 1
  /\ IF locked
     THEN LET y == yaw - dx * Sensitivity
              p == Clamp(pitch - dy * Sensitivity)
          IN /\ yaw' = y
             /\ pitch' = p
             /\ camQuat' = Euler(p, y)
     ELSE UNCHANGED <<yaw, pitch, camQuat>>
  /\ UNCHANGED <<phase, pos, keys, locked, lastTime, frameCount, fpsUpdateTime,
                 fpsShown, rafPending, lastFrame, fpsLog, keyEvents>>

\* the keydown listener
KeyDown(code) ==
  /\ phase = "running"
  /\ keyEvents < MaxKeyEvents
  /\ keyEvents' = keyEvents + 1
  /\ keys' = keys \cup {code}
  /\ UNCHANGED <<phase, yaw, pitch, camQuat, pos, locked, lastTime, frameCount,
                 fpsUpdateTime, fpsShown, rafPending, lastFrame, fpsLog, mouseSamples>>

\* the keyup listener
KeyUp(code) ==
  /\ phase = "running"
  /\ keyEvents < MaxKeyEvents
  /\ keyEvents' = keyEvents + 1
  /\ keys' = keys \ {code}
  /\ UNCHANGED <<phase, yaw, pitch, camQuat, pos, locked, lastTime, frameCount,
                 fpsUpdateTime, fpsShown, rafPending, lastFrame, fpsLog, mouseSamples>>

\* the click listener requests pointer capture and the browser grants it
PointerLock ==
  /\ phase = "running"
  /\ ~locked
  /\ locked' = TRUE
  /\ UNCHANGED <<phase, yaw, pitch, camQuat, pos, keys, lastTime, frameCount,
                 fpsUpdateTime, fpsShown, rafPending, lastFrame, fpsLog, mouseSamples, keyEvents>>

\* the user leaves pointer capture
PointerUnlock ==
  /\ locked
  /\ locked' = FALSE
  /\ UNCHANGED <<phase, yaw, pitch, camQuat, pos, keys, lastTime, frameCount,
                 fpsUpdateTime, fpsShown, rafPending, lastFrame, fpsLog, mouseSamples, keyEvents>>

(***************************************************************************)
(* Specifications: the relay and the client share no state.                *)
(***************************************************************************)
Init == RelayInit /\ ClientInit

RelayNext ==
  \/ Connect /\ UNCHANGED clientVars
  \/ \E c \in Conns : Disconnect(c) /\ UNCHANGED clientVars
  \/ \E s \in Conns, data \in Payloads : PlayerMove(s, data) /\ UNCHANGED clientVars
  \/ \E s \in Conns, team \in JoinArgs : JoinTeam(s, team) /\ UNCHANGED clientVars
  \/ Health /\ UNCHANGED clientVars

RelaySpec == Init /\ [][RelayNext]_vars

ClientNext ==
  \/ Construct /\ UNCHANGED relayVars
  \/ \E gap \in FrameGaps : Frame(gap) /\ UNCHANGED relayVars
  \/ \E m \in MouseSamples : MouseMove(m[1], m[2]) /\ UNCHANGED relayVars
  \/ \E code \in KeyCodes : KeyDown(code) /\ UNCHANGED relayVars
  \/ \E code \in KeyCodes : KeyUp(code) /\ UNCHANGED relayVars
  \/ PointerLock /\ UNCHANGED relayVars
  \/ PointerUnlock /\ UNCHANGED relayVars

ClientSpec == Init /\ [][ClientNext]_vars

\* the delivery of a frame callback, and the states in which one can be delivered
FrameStep == \E gap \in FrameGaps : Frame(gap) /\ UNCHANGED relayVars

FrameReady == phase = "running" /\ rafPending > 0 /\ lastFrame.n <= MaxFrames

\* the environment keeps delivering the frame callback it was asked for:
\* WF_vars(FrameStep), written with the guard of Frame for ENABLED <<FrameStep>>_vars
\* (beyond its guard Frame only assigns, and it always changes lastFrame)
FrameFairness == []<>(~FrameReady) \/ []<><<FrameStep>>_vars

\* the pointer-movement samples of the fair specification
LoopSamples == { <<393, -262>>, <<0, 1000>> }

LoopNext ==
  \/ Construct /\ UNCHANGED relayVars
  \/ FrameStep
  \/ \E s \in LoopSamples : MouseMove(s[1], s[2]) /\ UNCHANGED relayVars
  \/ \E code \in KeyCodes : KeyDown(code) /\ UNCHANGED relayVars
  \/ \E code \in KeyCodes : KeyUp(code) /\ UNCHANGED relayVars
  \/ PointerLock /\ UNCHANGED relayVars
  \/ PointerUnlock /\ UNCHANGED relayVars

ClientLiveSpec == Init /\ [][LoopNext]_vars /\ FrameFairness

(***************************************************************************)
(* Relay: properties.                                                      *)
(***************************************************************************)
\* the events of one type the last step emitted to receiver r
Got(r, type) == SelectSeq(out[r], LAMBDA e : e.type = type)

\* the connected connections that have sent join-team T
JoinedMembers(T) == {c \in connected : T \in joined[c]}

\* the connected connections in room T: those that have sent join-team T and
\* the connection whose socket id is the string T
Members(T) == {c \in connected : T \in joined[c] \/ id[c] = T}

\* the connections that connected and have disconnected since
Departed == {c \in Conns : id[c] # "" /\ c \notin connected}

\* C1: each player-move report of a connection A gives every other
\* connection connected at that moment exactly one player-moved event tagged
\* with A's identifier, and gives A none.
C1_MoveRelayedToEveryOther ==
  last.kind = "player-move" =>
    /\ \A r \in last.others :
         /\ Len(out[r]) = 1
         /\ out[r][1].type = "player-moved"
         /\ out[r][1].playerId = id[last.conn]
    /\ out[last.conn] = <<>>

\* C2: the playerCount of every team-update emitted for a join-team of room
\* T is the number of connected connections that are members of T by their
\* own join-team requests (the joining one included, each counted once).
C2_CountIsJoinedMembers ==
  last.kind = "join-team" =>
    \A r \in Conns : \A i \in 1..Len(out[r]) :
      out[r][i].type = "team-update" =>
        out[r][i].playerCount = Cardinality(JoinedMembers(last.team))

\* C3: a disconnected connection is in no room: the playerCount of a later
\* join-team counts connected connections only, and a disconnected connection
\* is sent no event.
C3_DisconnectLeavesRooms ==
  /\ \A c \in Conns \ connected : out[c] = <<>>
  /\ \A T \in RoomNames : rooms[T] \cap Departed = {}
  /\ last.kind = "join-team" =>
       \A r \in Conns : \A i \in 1..Len(out[r]) :
         out[r][i].type = "team-update" =>
           out[r][i].playerCount = Cardinality(Members(last.team))

\* a join-team of a team that a member has left by disconnecting; the two
\* connected members are counted
C3_Witness ==
  /\ last.kind = "join-team"
  /\ last.team \in vacated
  /\ Departed # {}
  /\ Len(Got(last.conn, "team-update")) = 1
  /\ Got(last.conn, "team-update")[1].playerCount = 2

\* C4: join-team never removes a membership: a connected connection is in
\* every room it has sent join-team for, is counted in the playerCount of a
\* later join of any of them and receives its team-update.
C4_MembershipNonExclusive ==
  /\ \A c \in connected : \A T \in joined[c] : c \in rooms[T]
  /\ last.kind = "join-team" =>
       \A c \in JoinedMembers(last.team) :
         /\ Len(Got(c, "team-update")) = 1
         /\ Got(c, "team-update")[1].playerCount >= Cardinality(JoinedMembers(last.team))

\* a connection that joined both teams receives the team-update of another
\* connection's join, which counts both
C4_Witness ==
  /\ last.kind = "join-team"
  /\ \E c \in connected :
       /\ c # last.conn
       /\ Teams \subseteq joined[c]
       /\ Len(Got(c, "team-update")) = 1
       /\ Got(c, "team-update")[1].playerCount = 2

\* C5: a join-team of room T by S emits exactly one team-joined, carrying T,
\* to S alone, and exactly one team-update to every member of T, S included;
\* S is sent its team-joined before its team-update.
C5_JoinTeamEmissions ==
  last.kind = "join-team" =>
    /\ Len(out[last.conn]) = 2
    /\ out[last.conn][1] = [type |-> "team-joined", team |-> last.team]
    /\ out[last.conn][2].type = "team-update"
    /\ \A r \in Conns \ {last.conn} : Got(r, "team-joined") = <<>>
    /\ \A r \in JoinedMembers(last.team) : Len(Got(r, "team-update")) = 1

\* a join-team of a team that has another connected member
C5_Witness ==
  /\ last.kind = "join-team"
  /\ last.team \in Teams
  /\ \E r \in JoinedMembers(last.team) : r # last.conn /\ Len(out[r]) = 1

\* C6: every connection is sent exactly one welcome, at connect, carrying
\* its own identifier; no two connections have the same identifier; every
\* player-moved relayed for a connection carries the playerId of its welcome.
C6_WelcomeIdStable ==
  /\ \A c \in Conns :
       /\ id[c] = "" => welcomes[c] = <<>>
       /\ id[c] # "" => welcomes[c] = <<id[c]>>
       /\ \A d \in Conns \ {c} : id[c] # "" => id[d] # id[c]
  /\ last.kind = "connect" => out[last.conn] = <<[type |-> "welcome", playerId |-> id[last.conn]]>>
  /\ last.kind = "player-move" =>
       \A r \in Conns : \A i \in 1..Len(out[r]) :
         out[r][i].type = "player-moved" =>
           /\ Len(welcomes[last.conn]) = 1
           /\ out[r][i].playerId = welcomes[last.conn][1]

\* a report of the second connection reaches the first and the third
C6_Witness ==
  /\ last.kind = "player-move"
  /\ last.conn = 2
  /\ Len(out[1]) = 1
  /\ Len(out[3]) = 1

\* C10: GET /health is answered with HTTP 200 and status "ok" in every
\* reachable server state.
C10_HealthAlwaysOk ==
  last.kind = "health" =>
    /\ Len(out[0]) = 1
    /\ out[0][1].status = 200
    /\ out[0][1].body = "ok"

\* C11: a disconnect emits nothing: no event of any kind is sent to any
\* connection by the disconnect handler.
C11_DisconnectEmitsNothing ==
  last.kind = "disconnect" => \A r \in Receivers : out[r] = <<>>

\* a member of a team disconnects while another member of it stays connected
C11_Witness ==
  /\ last.kind = "disconnect"
  /\ vacated # {}
  /\ \E T \in vacated : JoinedMembers(T) # {}

\* C13: the player-move handler completes without failing for every payload
\* and the relay keeps serving afterwards.
C13_PlayerMoveNeverFails ==
  last.kind = "player-move" => running

\* C14: a team-update caused by a join-team of room T is delivered only to
\* connected connections that have themselves sent join-team T, for every
\* string T that a client sends.
C14_UpdateOnlyToJoiners ==
  last.kind = "join-team" =>
    \A r \in Conns :
      Got(r, "team-update") # <<>> => r \in JoinedMembers(last.team)

\* C20: welcome is the first event a connection receives: a welcome is the
\* first event of the connect step, and every other event goes to a connection
\* that has had its welcome.
C20_WelcomeFirst ==
  \A c \in Conns : \A i \in 1..Len(out[c]) :
    IF out[c][i].type = "welcome"
    THEN i = 1 /\ last.kind = "connect" /\ last.conn = c
    ELSE last.kind # "connect" /\ Len(welcomes[c]) = 1

\* the last connection to connect is sent another connection's player-moved
C20_Witness ==
  /\ last.kind = "player-move"
  /\ nextConn > MaxConns
  /\ Got(MaxConns, "player-moved") # <<>>
  /\ welcomes[MaxConns] # <<>>

(***************************************************************************)
(* Client: properties.                                                     *)
(***************************************************************************)
\* C7: the camera pitch stays within [-pi/2, pi/2], whatever the
\* pointer-movement samples.
C7_PitchClamped ==
  /\ -HalfPi <= pitch /\ pitch <= HalfPi
  /\ -HalfPi <= camQuat.pitch /\ camQuat.pitch <= HalfPi

\* two samples took the pitch past a limit, where it was clamped
C7_Witness == mouseSamples = 2 /\ pitch = -HalfPi /\ camQuat.pitch = -HalfPi

\* C8: the frame run by the constructor and the first frame of the frame
\* callback have deltaTime 0 and leave the camera position as it was.
C8_FirstFrameNoMove ==
  lastFrame.n \in {1, 2} =>
    /\ lastFrame.dt = 0
    /\ pos = lastFrame.from
    /\ pos = InitPos

\* the first frame of the frame callback, run with KeyW held
C8_Witness == lastFrame.n = 2 /\ "KeyW" \in lastFrame.keys /\ lastFrame.time > 0

\* C9: a frame with only KeyW held and deltaTime 1.0 moves the camera by
\* speed (5.0) units along the forward direction projected onto the ground,
\* (-sin yaw, 0, -cos yaw), whatever the yaw and the pitch; to within 0.005
\* of a unit, the rounding of the arithmetic.
C9_ForwardFiveUnits ==
  (lastFrame.keys = {"KeyW"} /\ lastFrame.dt = 1000) =>
    LET dx == pos.x - lastFrame.from.x
        dz == pos.z - lastFrame.from.z
        fx == -Sin(lastFrame.quat.yaw)
        fz == -Cos(lastFrame.quat.yaw)
    IN /\ pos.y = lastFrame.from.y
       /\ Abs(dx * TrigScale - Speed * 1000 * fx) <= 5 * TrigScale
       /\ Abs(dz * TrigScale - Speed * 1000 * fz) <= 5 * TrigScale

\* C12 as stated: the request for the next frame callback is never issued
\* before the current frame's render has completed, so render comes before the
\* request in animate and no callback is outstanding while render runs.
C12_RequestAfterRender ==
  lastFrame.n >= 1 =>
    /\ Place(lastFrame.order, "render")
         < Place(lastFrame.order, "requestAnimationFrame")
    /\ lastFrame.atRender = 0

\* C12 amended: animate requests the next frame callback first, before
\* updateFPS, handleMovement and render; render is its last call, and exactly
\* one callback, requested and not yet run, is outstanding while render runs.
C12_RequestFirstRenderLast ==
  lastFrame.n >= 1 =>
    /\ lastFrame.order[1] = "requestAnimationFrame"
    /\ lastFrame.order[Len(lastFrame.order)] = "render"
    /\ \A i, j \in 1..Len(lastFrame.order) :
         lastFrame.order[i] = lastFrame.order[j] => i = j
    /\ lastFrame.atRender = 1

\* the second frame of the frame callback has rendered
C12_Witness == lastFrame.n = 3 /\ lastFrame.atRender = 1 /\ lastFrame.time > 0

\* C15: once the loop has started exactly one frame callback is pending after
\* every frame, and, the callback being delivered, every frame is followed by
\* another (up to MaxFrames frames of the callback).
C15_LoopNeitherStopsNorMultiplies ==
  /\ [](phase = "running" => rafPending = 1)
  /\ \A k \in 1..MaxFrames : (lastFrame.n = k) ~> (lastFrame.n = k + 1)

\* the last frame of the callback has run and one callback is pending
C15_Witness == lastFrame.n = MaxFrames + 1 /\ rafPending = 1

\* C16: the vertical coordinate of the camera position keeps its initial
\* value in every reachable state.
C16_GroundLevel == pos.y = InitPos.y

\* a frame has moved the camera forward while it was pitched
C16_Witness ==
  /\ "KeyW" \in lastFrame.keys
  /\ lastFrame.dt > 0
  /\ lastFrame.quat.pitch # 0
  /\ pos # lastFrame.from

\* C17: a pointer-movement sample never changes the camera position, and
\* changes yaw, pitch and orientation only if pointer capture is active.
C17_SampleOnlyWhenCaptured ==
  [][mouseSamples' # mouseSamples =>
       /\ pos' = pos
       /\ ~locked => (yaw' = yaw /\ pitch' = pitch /\ camQuat' = camQuat)]_vars

\* of two samples one arrived captured and one did not
C17_Witness ==
  /\ mouseSamples = 2
  /\ yaw = -393 * Sensitivity
  /\ pitch = 262 * Sensitivity
  /\ camQuat = Euler(pitch, yaw)

\* C18: a frame never changes yaw, pitch or orientation, and leaves the camera
\* position unchanged if no movement key is held.
C18_NoKeyNoMove ==
  [][lastFrame'.n # lastFrame.n =>
       /\ yaw' = yaw /\ pitch' = pitch /\ camQuat' = camQuat
       /\ keys \cap MoveKeys = {} => pos' = pos]_vars

\* a frame of a full second with the camera turned and only another key held
C18_Witness ==
  /\ lastFrame.dt = 1000
  /\ lastFrame.keys = {"Space"}
  /\ lastFrame.quat.pitch # 0
  /\ pos = lastFrame.from

\* C19: a frame reports and resets the frame count exactly when 1000 ms or
\* more have elapsed since the previous report (since time 0 before any):
\* reports are 1000 ms or more apart, no frame is 1000 ms or more past the last
\* report, and the frame count is the number of frames since the last reset.
C19_FpsWindow ==
  LET r == fpsLog.reports
      lastReport == IF r = <<>> THEN 0 ELSE r[Len(r)]
  IN /\ \A i \in 1..Len(r) : r[i] - (IF i = 1 THEN 0 ELSE r[i - 1]) >= 1000
     /\ lastTime - lastReport < 1000
     /\ fpsUpdateTime = lastReport
     /\ frameCount = fpsLog.since

\* a frame has run since a report
C19_Witness ==
  /\ Len(fpsLog.reports) = 1
  /\ frameCount = 1
  /\ lastTime > fpsUpdateTime

=============================================================================
